---- MODULE Spec2Model ----
(***************************************************************************)
(* Model of backend/server.py: the feedback / suggestion intake API.       *)
(*                                                                         *)
(* The document store is `db`, one sequence of documents per collection    *)
(* (insertion order is the store's natural order).  Every `await` on the   *)
(* store is one atomic step of the store; a handler that awaits more than  *)
(* once is a sequence of steps that interleaves with the other handlers.   *)
(*                                                                         *)
(* Encoding of values: a JSON null / Python None is None == <<>>, and a    *)
(* present value v of an Optional field or of a request body is Some(v)    *)
(* == <<v>>.  A request body is a function from the keys it carries to     *)
(* such values; a key it does not carry is not in its DOMAIN.              *)
(***************************************************************************)
EXTENDS Integers, Sequences, FiniteSets, Bags, TLC

VARIABLES
    db,         \* db.feedback, db.suggestions: the stored documents
    clock,      \* what datetime.utcnow() returns now
    issued,     \* how many identifiers uuid.uuid4() has produced
    inflight,   \* the bag of handlers suspended at an await
    response,   \* the response of the handler that finished last
    acks,       \* per suggestion id: "Vote recorded successfully" responses sent
    updates     \* how many PATCH requests have passed their existence check

vars == <<db, clock, issued, inflight, response, acks, updates>>

---------------------------------------------------------------------------
(* Bounds of the model *)

MaxCreated == 2
MaxClock == 2
MaxInFlight == 2
MaxVotes == 2
MaxUpdates == 2
MaxStored == 6
MaxEvents == 2
TicksPerMilli == 2

---------------------------------------------------------------------------
(* Values *)

None == <<>>
Some(v) == <<v>>

Range(s) == {s[i] : i \in 1..Len(s)}
Has(d, k) == k \in DOMAIN d
Get(d, k, default) == IF k \in DOMAIN d THEN d[k] ELSE default
Min(a, b) == IF a <= b THEN a ELSE b

\* The enumerations, in declaration order.
FeedbackCategory ==
    <<"user_interface", "social_features", "content", "functionality",
      "performance", "security", "accessibility", "other">>
FeedbackStatus == <<"pending", "reviewed", "in_progress", "resolved", "closed">>
FeedbackType == <<"feedback", "suggestion", "bug_report", "feature_request">>
Priority == <<"low", "medium", "high", "urgent">>

\* uuid.uuid4(): the n-th identifier it produces.  Version-4 UUIDs are drawn
\* from 2^122 values; the model takes two draws never to coincide.
UUIDS == <<"u1", "u2", "u3", "u4", "u5", "u6", "u7", "u8">>
uuid4(n) == UUIDS[n + 1]

\* Identifiers issued by earlier runs of the server, whose documents the
\* database still holds.
FeedbackIds == <<"f1", "f2", "f3", "f4", "f5", "f6", "f7", "f8">>
SuggestionIds == <<"s1", "s2", "s3", "s4", "s5", "s6", "s7", "s8">>

\* Every value a path parameter takes in this model.
Ids == Range(UUIDS) \cup Range(FeedbackIds) \cup Range(SuggestionIds) \cup {"invalid-id"}

---------------------------------------------------------------------------
(* Request bodies *)

With(p, k, v) == [x \in DOMAIN p \cup {k} |-> IF x = k THEN v ELSE p[x]]
Without(p, k) == [x \in DOMAIN p \ {k} |-> p[x]]

RatingLo == 1
RatingHi == 5
RatingInputs == (RatingLo - 2)..(RatingHi + 2)

\* The submission of the end-to-end scenario, and one that carries no rating
\* but carries fields a client is not meant to set.
FeedbackScenario ==
    [title |-> Some("X"), description |-> Some("Y"),
     category |-> Some("performance"), type |-> Some("bug_report"),
     rating |-> Some(2)]
FeedbackWithExtras ==
    [title |-> Some("T"), description |-> Some("D"),
     category |-> Some("other"), type |-> Some("feedback"),
     is_anonymous |-> Some(TRUE),
     id |-> Some("u1"), status |-> Some("resolved"), priority |-> Some("urgent"),
     admin_notes |-> Some("n"), admin_response |-> Some("r"),
     created_at |-> Some(0), updated_at |-> Some(0)]

SuggestionScenario ==
    [title |-> Some("X"), description |-> Some("Y"),
     category |-> Some("performance"), rating |-> Some(4),
     expected_benefit |-> Some("b")]
SuggestionWithExtras ==
    [title |-> Some("T"), description |-> Some("D"),
     category |-> Some("other"), user_name |-> Some("ann"),
     id |-> Some("u1"), status |-> Some("closed"), priority |-> Some("high"),
     admin_notes |-> Some("n"), admin_response |-> Some("r"),
     votes |-> Some(7)]

\* One-field deviations of a submission: every rating around the range, a
\* null and a missing rating, each required field missing, null or empty, and
\* enumeration values outside the fixed sets.
Deviations(base, required, enums) ==
    {base}
    \cup {With(base, "rating", Some(r)) : r \in RatingInputs}
    \cup {With(base, "rating", None), Without(base, "rating")}
    \cup {Without(base, k) : k \in required}
    \cup {With(base, k, None) : k \in required}
    \cup {With(base, k, Some("")) : k \in {"title", "description"}}
    \cup {With(base, k, Some("invalid_" \o k)) : k \in enums}

FeedbackPayloads ==
    Deviations(FeedbackScenario, {"title", "description", "category", "type"},
               {"category", "type"})
    \cup {FeedbackWithExtras}
SuggestionPayloads ==
    Deviations(SuggestionScenario, {"title", "description", "category"}, {"category"})
    \cup {SuggestionWithExtras}

\* The submissions of the specification with every handler in it.
CoreFeedbackPayloads == {FeedbackScenario}
CoreSuggestionPayloads == {SuggestionWithExtras}

---------------------------------------------------------------------------
(* The pydantic models *)

Present(p, k) == Has(p, k) /\ p[k] # None

\* RatingOk with the lower bound off by one (ge=0)
RatingOk_ge0(p) ==
    Present(p, "rating") => (p.rating[1] >= RatingLo - 1 /\ p.rating[1] <= RatingHi)

\* Field(None, ge=1, le=5)
RatingOk(p) ==
    Present(p, "rating") => (p.rating[1] >= RatingLo /\ p.rating[1] <= RatingHi)

\* FeedbackCreate: which bodies pass validation
FeedbackCreateOk(p) ==
    /\ Present(p, "title")
    /\ Present(p, "description")
    /\ Present(p, "category") /\ p.category[1] \in Range(FeedbackCategory)
    /\ Present(p, "type") /\ p.type[1] \in Range(FeedbackType)
    /\ RatingOk(p)

\* FeedbackCreate_dict as it would be under Config.extra = "allow": the
\* lifecycle fields of the body survive into the dict.
FeedbackCreate_dict_extra(p) ==
    [k \in {"status", "priority", "admin_notes", "admin_response"} \cap DOMAIN p |-> p[k]]
    @@ [title |-> p.title[1],
        description |-> p.description[1],
        category |-> p.category[1],
        type |-> p.type[1],
        rating |-> Get(p, "rating", None),
        is_anonymous |-> IF Present(p, "is_anonymous") THEN p.is_anonymous[1] ELSE FALSE,
        user_email |-> Get(p, "user_email", None),
        user_name |-> Get(p, "user_name", None)]

\* FeedbackCreate(...).dict(): the declared fields and nothing else
FeedbackCreate_dict(p) ==
    [title |-> p.title[1],
     description |-> p.description[1],
     category |-> p.category[1],
     type |-> p.type[1],
     rating |-> Get(p, "rating", None),
     is_anonymous |-> IF Present(p, "is_anonymous") THEN p.is_anonymous[1] ELSE FALSE,
     user_email |-> Get(p, "user_email", None),
     user_name |-> Get(p, "user_name", None)]

SuggestionCreateOk(p) ==
    /\ Present(p, "title")
    /\ Present(p, "description")
    /\ Present(p, "category") /\ p.category[1] \in Range(FeedbackCategory)
    /\ RatingOk(p)

SuggestionCreate_dict(p) ==
    [title |-> p.title[1],
     description |-> p.description[1],
     category |-> p.category[1],
     rating |-> Get(p, "rating", None),
     is_anonymous |-> IF Present(p, "is_anonymous") THEN p.is_anonymous[1] ELSE FALSE,
     user_email |-> Get(p, "user_email", None),
     user_name |-> Get(p, "user_name", None),
     expected_benefit |-> Get(p, "expected_benefit", None)]

\* Feedback(**kw): a keyword the caller passes wins over the field's default;
\* id comes from uuid4 and the two timestamps from two calls of utcnow.
Feedback(kw, id, t1, t2) ==
    [id |-> Get(kw, "id", id),
     title |-> kw.title,
     description |-> kw.description,
     category |-> kw.category,
     type |-> kw.type,
     rating |-> kw.rating,
     is_anonymous |-> kw.is_anonymous,
     user_email |-> kw.user_email,
     user_name |-> kw.user_name,
     status |-> Get(kw, "status", Some("pending")),
     priority |-> Get(kw, "priority", Some("medium")),
     created_at |-> Get(kw, "created_at", t1),
     updated_at |-> Get(kw, "updated_at", t2),
     admin_notes |-> Get(kw, "admin_notes", None),
     admin_response |-> Get(kw, "admin_response", None)]

Suggestion(kw, id, t1, t2) ==
    [id |-> Get(kw, "id", id),
     title |-> kw.title,
     description |-> kw.description,
     category |-> kw.category,
     rating |-> kw.rating,
     is_anonymous |-> kw.is_anonymous,
     user_email |-> kw.user_email,
     user_name |-> kw.user_name,
     expected_benefit |-> kw.expected_benefit,
     status |-> Get(kw, "status", Some("pending")),
     priority |-> Get(kw, "priority", Some("medium")),
     created_at |-> Get(kw, "created_at", t1),
     updated_at |-> Get(kw, "updated_at", t2),
     admin_notes |-> Get(kw, "admin_notes", None),
     admin_response |-> Get(kw, "admin_response", None),
     votes |-> Get(kw, "votes", 0)]

---------------------------------------------------------------------------
(* The store *)

Init ==
    /\ db = [feedback |-> <<>>, suggestions |-> <<>>, analytics |-> <<>>]
    /\ clock = 0
    /\ issued = 0
    /\ inflight = EmptyBag
    /\ response = [op |-> "none", code |-> 0, body |-> None]
    /\ acks = [id \in Ids |-> 0]
    /\ updates = 0

\* The bound on the store: MaxCreated documents in all.
Room == Len(db.feedback) + Len(db.suggestions) < MaxCreated

\* The clock is read in ticks finer than a millisecond (datetime has
\* microseconds); a BSON datetime holds milliseconds, and encoding a document
\* for the store drops the rest of each datetime it carries.
bson_datetime(t) == t - (t % TicksPerMilli)
bson_encode(doc) ==
    [k \in DOMAIN doc |->
        IF k \in {"created_at", "updated_at", "timestamp"} THEN bson_datetime(doc[k])
        ELSE doc[k]]

\* collection.insert_one(doc)
insert_one(coll, doc) == Append(coll, bson_encode(doc))

Reply(op, code, body) == [op |-> op, code |-> code, body |-> body]

\* datetime.utcnow(): what a read can return when the read before it returned
\* t; the clock stood still or moved on by one tick.
utcnow(t) == t..Min(t + 1, MaxClock)

---------------------------------------------------------------------------
(* POST /feedback and POST /suggestions *)

create_feedback(p) ==
    IF ~FeedbackCreateOk(p)
    THEN /\ response' = Reply("create_feedback", 422, None)
         /\ UNCHANGED <<db, clock, issued, inflight, acks, updates>>
    ELSE /\ Room
         /\ \E t1 \in utcnow(clock) : \E t2 \in utcnow(t1) :
              LET feedback_obj == Feedback(FeedbackCreate_dict(p), uuid4(issued), t1, t2)
              IN  /\ db' = [db EXCEPT !.feedback = insert_one(@, feedback_obj)]
                  /\ response' = Reply("create_feedback", 200, feedback_obj)
                  /\ clock' = t2
         /\ issued' = issued + 1
         /\ UNCHANGED <<inflight, acks, updates>>

create_suggestion(p) ==
    IF ~SuggestionCreateOk(p)
    THEN /\ response' = Reply("create_suggestion", 422, None)
         /\ UNCHANGED <<db, clock, issued, inflight, acks, updates>>
    ELSE /\ Room
         /\ \E t1 \in utcnow(clock) : \E t2 \in utcnow(t1) :
              LET suggestion_obj ==
                      Suggestion(SuggestionCreate_dict(p), uuid4(issued), t1, t2)
              IN  /\ db' = [db EXCEPT !.suggestions = insert_one(@, suggestion_obj)]
                  /\ response' = Reply("create_suggestion", 200, suggestion_obj)
                  /\ clock' = t2
         /\ issued' = issued + 1
         /\ UNCHANGED <<inflight, acks, updates>>

---------------------------------------------------------------------------
(* Store operations *)

\* The position of the first document of coll with this id, 0 when none has it.
Position(coll, id) ==
    IF \E i \in 1..Len(coll) : coll[i].id = id
    THEN CHOOSE i \in 1..Len(coll) :
             /\ coll[i].id = id
             /\ \A j \in 1..(i - 1) : coll[j].id # id
    ELSE 0

\* collection.find_one({"id": id}): Some(document) or None
find_one(coll, id) ==
    IF Position(coll, id) = 0 THEN None ELSE Some(coll[Position(coll, id)])

\* {"$set": fields} applied to one document
Set(doc, fields) ==
    [k \in DOMAIN doc \cup DOMAIN fields |-> IF k \in DOMAIN fields THEN fields[k] ELSE doc[k]]

\* collection.update_one({"id": id}, {"$set": fields}); no match, no change
update_one_set(coll, id, fields) ==
    IF Position(coll, id) = 0 THEN coll
    ELSE [coll EXCEPT ![Position(coll, id)] = Set(@, bson_encode(fields))]

\* An increment that also stamps updated_at
update_one_inc_touch(coll, id) ==
    IF Position(coll, id) = 0 THEN coll
    ELSE [coll EXCEPT ![Position(coll, id)] = Set(@, [votes |-> @.votes + 1,
                                                      updated_at |-> clock + 1])]

\* collection.update_one({"id": id}, {"$inc": {"votes": 1}})
update_one_inc(coll, id) ==
    IF Position(coll, id) = 0 THEN coll
    ELSE [coll EXCEPT ![Position(coll, id)].votes = @ + 1]

\* A handler without its existence check
NotFound_unchecked(found) == FALSE

\* `if not feedback: raise HTTPException(status_code=404)`
NotFound(found) == found = None

---------------------------------------------------------------------------
(* PATCH bodies *)

UpdateFields == {"status", "priority", "admin_notes", "admin_response"}

UpdateBodies ==
    { [status |-> Some("resolved")],
      [admin_notes |-> Some("note")],
      [priority |-> Some("high"), votes |-> Some(9)],
      [x \in {} |-> None],
      [status |-> None],
      [status |-> Some("invalid_status")] }

\* FeedbackUpdate: every field is Optional, so a null passes; a status or a
\* priority that is a string must be a member of its enumeration.
FeedbackUpdateOk(b) ==
    /\ Present(b, "status") => b.status[1] \in Range(FeedbackStatus)
    /\ Present(b, "priority") => b.priority[1] \in Range(Priority)

\* The request body used as it came, without the model's field list
FeedbackUpdate_dict_raw(b) ==
    [k \in DOMAIN b |-> IF k \in UpdateFields THEN b[k] ELSE b[k][1]]

\* update_data.dict() without exclude_unset: every declared field, the unset
\* ones at their default None
FeedbackUpdate_dict_all(b) == [k \in UpdateFields |-> Get(b, k, None)]

\* update_data.dict(exclude_unset=True): the declared fields the body set
FeedbackUpdate_dict(b) == [k \in DOMAIN b \cap UpdateFields |-> b[k]]

\* Feedback(**document) / Suggestion(**document) on a stored document: status
\* and priority are not Optional, so a stored null fails validation.
DocumentOk(doc) == doc.status # None /\ doc.priority # None

---------------------------------------------------------------------------
(* Handlers that await the store more than once *)

\* A handler suspended at an await: which one, the call it awaits, and its
\* locals (the path parameter, the document its lookup found, the PATCH body,
\* update_dict).
Handler(op, pc, id, found, update_data, update_dict) ==
    [op |-> op, pc |-> pc, id |-> id, found |-> found,
     update_data |-> update_data, update_dict |-> update_dict]

Running == BagToSet(inflight)
At(h, op, pc) == h \in Running /\ h.op = op /\ h.pc = pc

Start(h) == inflight' = inflight (+) SetToBag({h})
Step(h, g) == inflight' = (inflight (-) SetToBag({h})) (+) SetToBag({g})
Finish(h) == inflight' = inflight (-) SetToBag({h})

\* update_feedback / update_suggestion up to the second await: the body is
\* validated, the document looked up, update_dict built.
update_find(c, op, id, body) ==
    IF ~FeedbackUpdateOk(body)
    THEN /\ response' = Reply(op, 422, None)
         /\ UNCHANGED <<db, clock, issued, inflight, acks, updates>>
    ELSE LET found == find_one(db[c], id)
         IN  IF NotFound(found)
             THEN /\ response' = Reply(op, 404, None)
                  /\ UNCHANGED <<db, clock, issued, inflight, acks, updates>>
             ELSE /\ BagCardinality(inflight) < MaxInFlight
                  /\ updates < MaxUpdates
                  /\ updates' = updates + 1
                  /\ \E now \in utcnow(clock) :
                       /\ clock' = now
                       /\ Start(Handler(op, "update_one", id, found, body,
                                        With(FeedbackUpdate_dict(body), "updated_at", now)))
                  /\ UNCHANGED <<db, issued, response, acks>>

\* The write as a replacement of the whole document by the one the existence
\* check read, with update_dict laid over it
update_apply_replace(coll, h) ==
    IF Position(coll, h.id) = 0 \/ h.found = None THEN coll
    ELSE [coll EXCEPT ![Position(coll, h.id)] = Set(h.found[1], bson_encode(h.update_dict))]

\* The store's write of an update handler.
update_apply(coll, h) == update_one_set(coll, h.id, h.update_dict)

\* collection.update_one({"id": id}, {"$set": update_dict})
update_write(c, op, h) ==
    /\ At(h, op, "update_one")
    /\ db' = [db EXCEPT ![c] = update_apply(@, h)]
    /\ Step(h, [h EXCEPT !.pc = "find_one"])
    /\ UNCHANGED <<clock, issued, response, acks, updates>>

\* The read-back and the response model built from it.
update_return(c, op, h) ==
    /\ At(h, op, "find_one")
    /\ LET updated == find_one(db[c], h.id)
       IN  response' = IF updated # None /\ DocumentOk(updated[1])
                       THEN Reply(op, 200, updated[1])
                       ELSE Reply(op, 500, None)
    /\ Finish(h)
    /\ UNCHANGED <<db, clock, issued, acks, updates>>

update_feedback_find(id, body) == update_find("feedback", "update_feedback", id, body)
update_feedback_write(h) == update_write("feedback", "update_feedback", h)
update_feedback_return(h) == update_return("feedback", "update_feedback", h)

update_suggestion_find(id, body) == update_find("suggestions", "update_suggestion", id, body)
update_suggestion_write(h) == update_write("suggestions", "update_suggestion", h)
update_suggestion_return(h) == update_return("suggestions", "update_suggestion", h)

\* Votes on this suggestion that are on their way to the store.
Voting(id) == {h \in Running : h.op = "vote_suggestion" /\ h.id = id}
VotesBegun(id) ==
    LET pending[hs \in SUBSET Voting(id)] ==
            IF hs = {} THEN 0
            ELSE LET h == CHOOSE x \in hs : TRUE
                 IN  CopiesIn(h, inflight) + pending[hs \ {h}]
    IN  acks[id] + pending[Voting(id)]

\* vote_suggestion up to the second await: the existence check
vote_suggestion_find(id) ==
    LET suggestion == find_one(db.suggestions, id)
    IN  IF NotFound(suggestion)
        THEN /\ response' = Reply("vote_suggestion", 404, None)
             /\ UNCHANGED <<db, clock, issued, inflight, acks, updates>>
        ELSE /\ BagCardinality(inflight) < MaxInFlight
             /\ VotesBegun(id) < MaxVotes
             /\ Start(Handler("vote_suggestion", "update_one", id, suggestion, None, None))
             /\ UNCHANGED <<db, clock, issued, response, acks, updates>>

\* The vote written back from the document the existence check read
vote_apply_write_back(coll, h) ==
    IF h.found = None THEN coll
    ELSE update_one_set(coll, h.id, [votes |-> h.found[1].votes + 1])

\* The store's write of a vote handler.
vote_apply(coll, h) == update_one_inc(coll, h.id)

\* collection.update_one({"id": id}, {"$inc": {"votes": 1}}) and the
\* acknowledgment
vote_suggestion_inc(h) ==
    /\ At(h, "vote_suggestion", "update_one")
    /\ db' = [db EXCEPT !.suggestions = vote_apply(@, h)]
    /\ response' = Reply("vote_suggestion", 200, "Vote recorded successfully")
    /\ acks' = [acks EXCEPT ![h.id] = @ + 1]
    /\ Finish(h)
    /\ UNCHANGED <<clock, issued, updates>>

\* GET /feedback/{feedback_id}
get_feedback_by_id(id) ==
    /\ LET feedback == find_one(db.feedback, id)
       IN  response' = IF NotFound(feedback) THEN Reply("get_feedback_by_id", 404, None)
                       ELSE IF feedback # None /\ DocumentOk(feedback[1])
                            THEN Reply("get_feedback_by_id", 200, feedback[1])
                            ELSE Reply("get_feedback_by_id", 500, None)
    /\ UNCHANGED <<db, clock, issued, inflight, acks, updates>>

---------------------------------------------------------------------------
(* The specifications *)

\* The identifiers a client can send: issued or not, or never an identifier.
RequestIds == {uuid4(n) : n \in 0..(MaxCreated - 1)} \cup {"invalid-id"}

\* PATCH bodies of the specification that has votes in it.
CoreUpdateBodies ==
    { [status |-> Some("resolved"), votes |-> Some(9)],
      [status |-> Some("invalid_status")] }

\* Every handler of the feedback and suggestion facets.
Next ==
    \/ \E p \in CoreFeedbackPayloads : create_feedback(p)
    \/ \E p \in CoreSuggestionPayloads : create_suggestion(p)
    \/ \E id \in RequestIds : get_feedback_by_id(id)
    \/ \E id \in RequestIds, b \in CoreUpdateBodies : update_feedback_find(id, b)
    \/ \E h \in Running : update_feedback_write(h)
    \/ \E h \in Running : update_feedback_return(h)
    \/ \E id \in RequestIds, b \in CoreUpdateBodies : update_suggestion_find(id, b)
    \/ \E h \in Running : update_suggestion_write(h)
    \/ \E h \in Running : update_suggestion_return(h)
    \/ \E id \in RequestIds : vote_suggestion_find(id)
    \/ \E h \in Running : vote_suggestion_inc(h)

Spec == Init /\ [][Next]_vars

\* Submissions and partial updates, over every PATCH body.
NextUpdate ==
    \/ \E p \in CoreFeedbackPayloads : create_feedback(p)
    \/ \E p \in CoreSuggestionPayloads : create_suggestion(p)
    \/ \E id \in RequestIds, b \in UpdateBodies : update_feedback_find(id, b)
    \/ \E h \in Running : update_feedback_write(h)
    \/ \E h \in Running : update_feedback_return(h)
    \/ \E id \in RequestIds, b \in UpdateBodies : update_suggestion_find(id, b)
    \/ \E h \in Running : update_suggestion_write(h)
    \/ \E h \in Running : update_suggestion_return(h)

SpecUpdate == Init /\ [][NextUpdate]_vars

---------------------------------------------------------------------------
(* GET /categories/stats *)

\* collection.count_documents({"category": category})
count_documents(coll, category) ==
    Cardinality({i \in 1..Len(coll) : coll[i].category = category})

\* collection.find({"category": category, "rating": {"$exists": True}})
\* .to_list(None), in storage order
find_rated(coll, category) ==
    SelectSeq(coll, LAMBDA d : d.category = category /\ Has(d, "rating"))

\* Every gathered document counted, an absent rating as 0
ratings_of_every(documents) ==
    [i \in 1..Len(documents) |->
        IF documents[i].rating = None THEN 0 ELSE documents[i].rating[1]]

\* [f["rating"] for f in documents if f.get("rating")]: None and 0 are falsy
ratings_of(documents) ==
    LET kept == SelectSeq(documents, LAMBDA d : d.rating # None /\ d.rating[1] # 0)
    IN  [i \in 1..Len(kept) |-> kept[i].rating[1]]

RECURSIVE sum(_)
sum(xs) == IF xs = <<>> THEN 0 ELSE Head(xs) + sum(Tail(xs))

RECURSIVE gcd(_, _)
gcd(a, b) == IF b = 0 THEN a ELSE gcd(b, a % b)

\* a / b, a float: the model keeps the quotient exact, in lowest terms
divide(a, b) == [num |-> a \div gcd(a, b), den |-> b \div gcd(a, b)]

\* An average that is 0 when there is nothing to average
average_or_zero(all_ratings) ==
    IF all_ratings = <<>> THEN Some(divide(0, 1))
    ELSE Some(divide(sum(all_ratings), Len(all_ratings)))

\* sum(all_ratings) / len(all_ratings) if all_ratings else None
average(all_ratings) ==
    IF all_ratings = <<>> THEN None
    ELSE Some(divide(sum(all_ratings), Len(all_ratings)))

CategoryStats(category, feedback_count, suggestion_count, average_rating) ==
    [category |-> category, feedback_count |-> feedback_count,
     suggestion_count |-> suggestion_count, average_rating |-> average_rating]

\* The handler suspended at one of the four awaits of the loop body, for the
\* category at index `category` of the enumeration.
StatsHandler(pc, category, feedback_count, suggestion_count, feedback_ratings, stats) ==
    [op |-> "get_category_stats", pc |-> pc, category |-> category,
     feedback_count |-> feedback_count, suggestion_count |-> suggestion_count,
     feedback_ratings |-> feedback_ratings, stats |-> stats]

StatsRunning == {h \in Running : h.op = "get_category_stats"}

\* The request arrives: stats = [], and the loop starts at the first category.
get_category_stats ==
    /\ StatsRunning = {}
    /\ BagCardinality(inflight) < MaxInFlight
    /\ Start(StatsHandler("count_feedback", 1, 0, 0, <<>>, <<>>))
    /\ UNCHANGED <<db, clock, issued, response, acks, updates>>

stats_count_feedback(h) ==
    /\ At(h, "get_category_stats", "count_feedback")
    /\ Step(h, [h EXCEPT !.pc = "count_suggestions",
                         !.feedback_count =
                             count_documents(db.feedback, FeedbackCategory[h.category])])
    /\ UNCHANGED <<db, clock, issued, response, acks, updates>>

stats_count_suggestions(h) ==
    /\ At(h, "get_category_stats", "count_suggestions")
    /\ Step(h, [h EXCEPT !.pc = "find_feedback",
                         !.suggestion_count =
                             count_documents(db.suggestions, FeedbackCategory[h.category])])
    /\ UNCHANGED <<db, clock, issued, response, acks, updates>>

stats_find_feedback(h) ==
    /\ At(h, "get_category_stats", "find_feedback")
    /\ Step(h, [h EXCEPT !.pc = "find_suggestions",
                         !.feedback_ratings =
                             find_rated(db.feedback, FeedbackCategory[h.category])])
    /\ UNCHANGED <<db, clock, issued, response, acks, updates>>

\* The last await of the loop body, the entry appended to stats, and either
\* the next category or the response.
stats_find_suggestions(h) ==
    /\ At(h, "get_category_stats", "find_suggestions")
    /\ LET category == FeedbackCategory[h.category]
           suggestion_ratings == find_rated(db.suggestions, category)
           all_ratings == ratings_of(h.feedback_ratings) \o ratings_of(suggestion_ratings)
           stats == Append(h.stats,
                           CategoryStats(category, h.feedback_count, h.suggestion_count,
                                         average(all_ratings)))
       IN  IF h.category < Len(FeedbackCategory)
           THEN /\ Step(h, StatsHandler("count_feedback", h.category + 1, 0, 0, <<>>, stats))
                /\ UNCHANGED response
           ELSE /\ Finish(h)
                /\ response' = Reply("get_category_stats", 200, stats)
    /\ UNCHANGED <<db, clock, issued, acks, updates>>

\* Submissions with and without a rating, in two categories.
StatsFeedbackPayloads ==
    {FeedbackScenario, Without(FeedbackScenario, "rating"), FeedbackWithExtras}
StatsSuggestionPayloads == {SuggestionScenario, SuggestionWithExtras}

\* Submissions and the category statistics.
NextStats ==
    \/ \E p \in StatsFeedbackPayloads : create_feedback(p)
    \/ \E p \in StatsSuggestionPayloads : create_suggestion(p)
    \/ get_category_stats
    \/ \E h \in Running : stats_count_feedback(h)
    \/ \E h \in Running : stats_count_suggestions(h)
    \/ \E h \in Running : stats_find_feedback(h)
    \/ \E h \in Running : stats_find_suggestions(h)

SpecStats == Init /\ [][NextStats]_vars

\* The same, where no submission is written while the statistics are computed.
create_feedback_alone(p) == StatsRunning = {} /\ create_feedback(p)
create_suggestion_alone(p) == StatsRunning = {} /\ create_suggestion(p)

NextStatsAlone ==
    \/ \E p \in StatsFeedbackPayloads : create_feedback_alone(p)
    \/ \E p \in StatsSuggestionPayloads : create_suggestion_alone(p)
    \/ get_category_stats
    \/ \E h \in Running : stats_count_feedback(h)
    \/ \E h \in Running : stats_count_suggestions(h)
    \/ \E h \in Running : stats_find_feedback(h)
    \/ \E h \in Running : stats_find_suggestions(h)

SpecStatsAlone == Init /\ [][NextStatsAlone]_vars

---------------------------------------------------------------------------
(* GET /admin/dashboard *)

\* A document satisfies a filter document when it has each of its values.
matches(doc, filter_dict) == \A k \in DOMAIN filter_dict : doc[k] = filter_dict[k]

\* collection.count_documents(filter_dict)
count_matching(coll, filter_dict) ==
    Cardinality({i \in 1..Len(coll) : matches(coll[i], filter_dict)})

\* collection.find({}).sort("created_at", -1).limit(n).to_list(n): the first n
\* documents of an order by created_at descending. The store promises no order
\* among documents with equal created_at, so every such order is a result.
sort_created_at_desc_limit(coll, n) ==
    LET RECURSIVE pick(_, _)
        pick(rest, k) ==
            IF k = 0 \/ rest = {} THEN {<<>>}
            ELSE UNION {{<<coll[i]>> \o r : r \in pick(rest \ {i}, k - 1)} :
                        i \in {x \in rest : \A y \in rest : coll[y].created_at <= coll[x].created_at}}
    IN  pick(1..Len(coll), n)

RecentLimit == 5

\* count_documents({"priority": Priority.HIGH})
HighPriority(coll) == count_matching(coll, [priority |-> Some("high")])

\* The handler's locals at its awaits.
DashboardHandler(pc, o, recent_feedback) ==
    [op |-> "get_admin_dashboard", pc |-> pc, overview |-> o,
     recent_feedback |-> recent_feedback]

NoOverview ==
    [total_feedback |-> 0, total_suggestions |-> 0, pending_feedback |-> 0,
     pending_suggestions |-> 0, high_priority_items |-> 0]

DashboardRunning == {h \in Running : h.op = "get_admin_dashboard"}

get_admin_dashboard ==
    /\ DashboardRunning = {}
    /\ BagCardinality(inflight) < MaxInFlight
    /\ Start(DashboardHandler("total_feedback", NoOverview, <<>>))
    /\ UNCHANGED <<db, clock, issued, response, acks, updates>>

\* One awaited count: the handler moves from pc to next with the count kept.
dashboard_count(h, pc, next, field, n) ==
    /\ At(h, "get_admin_dashboard", pc)
    /\ Step(h, [h EXCEPT !.pc = next, !.overview[field] = n])
    /\ UNCHANGED <<db, clock, issued, response, acks, updates>>

dashboard_total_feedback(h) ==
    dashboard_count(h, "total_feedback", "total_suggestions", "total_feedback",
                    count_matching(db.feedback, <<>>))
dashboard_total_suggestions(h) ==
    dashboard_count(h, "total_suggestions", "pending_feedback", "total_suggestions",
                    count_matching(db.suggestions, <<>>))
dashboard_pending_feedback(h) ==
    dashboard_count(h, "pending_feedback", "pending_suggestions", "pending_feedback",
                    count_matching(db.feedback, [status |-> Some("pending")]))
dashboard_pending_suggestions(h) ==
    dashboard_count(h, "pending_suggestions", "high_feedback", "pending_suggestions",
                    count_matching(db.suggestions, [status |-> Some("pending")]))
dashboard_high_feedback(h) ==
    dashboard_count(h, "high_feedback", "high_suggestions", "high_priority_items",
                    HighPriority(db.feedback))
dashboard_high_suggestions(h) ==
    dashboard_count(h, "high_suggestions", "recent_feedback", "high_priority_items",
                    h.overview.high_priority_items + HighPriority(db.suggestions))

dashboard_recent_feedback(h) ==
    /\ At(h, "get_admin_dashboard", "recent_feedback")
    /\ \E recent \in sort_created_at_desc_limit(db.feedback, RecentLimit) :
           Step(h, [h EXCEPT !.pc = "recent_suggestions", !.recent_feedback = recent])
    /\ UNCHANGED <<db, clock, issued, response, acks, updates>>

\* The last await and the response; Feedback(**f) and Suggestion(**s) validate
\* each listed document.
dashboard_recent_suggestions(h) ==
    /\ At(h, "get_admin_dashboard", "recent_suggestions")
    /\ \E recent \in sort_created_at_desc_limit(db.suggestions, RecentLimit) :
           response' =
               IF \A d \in Range(h.recent_feedback) \cup Range(recent) : DocumentOk(d)
               THEN Reply("get_admin_dashboard", 200,
                          [overview |-> h.overview,
                           recent_feedback |-> h.recent_feedback,
                           recent_suggestions |-> recent])
               ELSE Reply("get_admin_dashboard", 500, None)
    /\ Finish(h)
    /\ UNCHANGED <<db, clock, issued, acks, updates>>

\* The database as earlier runs of the server left it: up to MaxStored
\* documents a collection, created in storage order at instants before this
\* run's first clock read (in order, with the two oldest at one instant, or
\* against the storage order), of two categories and types, with every status
\* and priority among them.
Timelines ==
    { [i \in 1..MaxStored |-> TicksPerMilli * (i - MaxStored - 1)],
      [i \in 1..MaxStored |-> TicksPerMilli * ((IF i = 1 THEN 2 ELSE i) - MaxStored - 1)],
      [i \in 1..MaxStored |-> TicksPerMilli * (0 - i)] }

StoredStatus(i) == Some(FeedbackStatus[((i - 1) % Len(FeedbackStatus)) + 1])
StoredPriority(i) == Some(Priority[((i + 1) % Len(Priority)) + 1])

StoredFeedback(n, times) ==
    [i \in 1..n |->
        Set(Feedback(FeedbackCreate_dict(IF i % 2 = 1 THEN FeedbackScenario
                                         ELSE FeedbackWithExtras),
                     FeedbackIds[i], times[i], times[i]),
            [status |-> StoredStatus(i), priority |-> StoredPriority(i)])]

StoredSuggestions(n, times) ==
    [i \in 1..n |->
        Set(Suggestion(SuggestionCreate_dict(IF i % 2 = 1 THEN SuggestionScenario
                                             ELSE SuggestionWithExtras),
                       SuggestionIds[i], times[i], times[i]),
            [status |-> StoredStatus(i + 1), priority |-> StoredPriority(i + 1)])]

StoredSizes == {0, 1, MaxStored - 1, MaxStored}

Restarted(sizes, timelines) ==
    /\ \E nf \in sizes, ns \in sizes, times \in timelines :
           db = [feedback |-> StoredFeedback(nf, times),
                 suggestions |-> StoredSuggestions(ns, times),
                 analytics |-> <<>>]
    /\ clock = 0
    /\ issued = 0
    /\ inflight = EmptyBag
    /\ response = [op |-> "none", code |-> 0, body |-> None]
    /\ acks = [id \in Ids |-> 0]
    /\ updates = 0

InitStored == Restarted(StoredSizes, Timelines)

\* The writes that leave created_at alone (one of them stores a null status),
\* none of them running while the dashboard is computed, and the dashboard
\* with no write in flight.
DashboardBodies ==
    {[priority |-> Some("high")], [status |-> Some("resolved")], [status |-> None]}

update_feedback_find_alone(id, body) ==
    DashboardRunning = {} /\ update_feedback_find(id, body)
vote_suggestion_find_alone(id) ==
    DashboardRunning = {} /\ vote_suggestion_find(id)
get_admin_dashboard_alone == inflight = EmptyBag /\ get_admin_dashboard

NextDashboard ==
    \/ \E b \in DashboardBodies : update_feedback_find_alone(FeedbackIds[1], b)
    \/ \E h \in Running : update_feedback_write(h)
    \/ \E h \in Running : update_feedback_return(h)
    \/ vote_suggestion_find_alone(SuggestionIds[1])
    \/ \E h \in Running : vote_suggestion_inc(h)
    \/ get_admin_dashboard_alone
    \/ \E h \in Running : dashboard_total_feedback(h)
    \/ \E h \in Running : dashboard_total_suggestions(h)
    \/ \E h \in Running : dashboard_pending_feedback(h)
    \/ \E h \in Running : dashboard_pending_suggestions(h)
    \/ \E h \in Running : dashboard_high_feedback(h)
    \/ \E h \in Running : dashboard_high_suggestions(h)
    \/ \E h \in Running : dashboard_recent_feedback(h)
    \/ \E h \in Running : dashboard_recent_suggestions(h)

SpecDashboard == InitStored /\ [][NextDashboard]_vars

---------------------------------------------------------------------------
(* GET /feedback and GET /suggestions *)

DefaultLimit == 50
DefaultSkip == 0

\* The query parameters a request carries: the keys of q, each with its value.
\* An enumerated parameter must be a member of its enumeration.
ListQueryOk(q) ==
    /\ Has(q, "status") => q.status \in Range(FeedbackStatus)
    /\ Has(q, "category") => q.category \in Range(FeedbackCategory)
    /\ Has(q, "priority") => q.priority \in Range(Priority)
    /\ Has(q, "feedback_type") => q.feedback_type \in Range(FeedbackType)

\* filter_dict: one entry for each parameter of `params` the request carries,
\* under the name of the stored field and in the form the field is stored in.
filter_of(q, params) ==
    LET field(k) == IF k = "feedback_type" THEN "type" ELSE k
        fields == {field(k) : k \in DOMAIN q \cap params}
        param(f) == IF f = "type" THEN "feedback_type" ELSE f
    IN  [f \in fields |->
            IF f \in {"status", "priority"} THEN Some(q[param(f)]) ELSE q[param(f)]]

\* collection.find(filter_dict).skip(skip).limit(limit).to_list(limit), for
\* skip >= 0 and limit > 0: the matches in storage order, the first skip
\* dropped, at most limit kept
find_skip_limit(coll, filter_dict, skip, limit) ==
    LET found == SelectSeq(coll, LAMBDA d : matches(d, filter_dict))
    IN  SubSeq(found, skip + 1, Min(Len(found), skip + limit))

\* A listing handler suspended at its await, with its parameters.
ListHandler(op, q) == [op |-> op, pc |-> "find", q |-> q]

ListRunning == {h \in Running : h.op \in {"get_feedback", "get_suggestions"}}

\* A listing up to its await: the query is validated and filter_dict built.
list_request(op, q) ==
    IF ~ListQueryOk(q)
    THEN /\ response' = Reply(op, 422, None)
         /\ UNCHANGED <<db, clock, issued, inflight, acks, updates>>
    ELSE /\ ListRunning = {}
         /\ BagCardinality(inflight) < MaxInFlight
         /\ Start(ListHandler(op, q))
         /\ UNCHANGED <<db, clock, issued, response, acks, updates>>

\* The awaited find, and Feedback(**feedback) / Suggestion(**suggestion) for
\* each document found.
list_find(op, coll, params, h) ==
    /\ At(h, op, "find")
    /\ LET found == find_skip_limit(coll, filter_of(h.q, params),
                                    Get(h.q, "skip", DefaultSkip),
                                    Get(h.q, "limit", DefaultLimit))
       IN  response' = IF \A d \in Range(found) : DocumentOk(d)
                       THEN Reply(op, 200, found)
                       ELSE Reply(op, 500, None)
    /\ Finish(h)
    /\ UNCHANGED <<db, clock, issued, acks, updates>>

get_feedback(q) == list_request("get_feedback", q)
get_feedback_find(h) ==
    list_find("get_feedback", db.feedback,
              {"status", "category", "priority", "feedback_type"}, h)

\* feedback_type is no parameter of this route: a request that carries it is
\* served as if it did not.
get_suggestions(q) ==
    list_request("get_suggestions", [k \in DOMAIN q \ {"feedback_type"} |-> q[k]])
get_suggestions_find(h) ==
    list_find("get_suggestions", db.suggestions, {"status", "category", "priority"}, h)

\* The requests: every parameter present or not; filters that match some, all
\* or none of the stored documents, and a status outside the enumeration;
\* offsets before and past the end; a limit that cuts and the default.
Choices(k, values) == {<<>>} \cup {[x \in {k} |-> v] : v \in values}

FilterQueries ==
    {a @@ b @@ c @@ d :
        a \in Choices("status", {"pending"}),
        b \in Choices("category", {"performance"}),
        c \in Choices("priority", {"low"}),
        d \in Choices("feedback_type", {"bug_report"})}

PageQueries ==
    {a @@ e @@ f :
        a \in Choices("status", {"pending"}),
        e \in Choices("skip", {1, MaxStored}),
        f \in Choices("limit", {2})}

ListQueries ==
    FilterQueries \cup PageQueries
    \cup {[category |-> "security"], [status |-> "invalid_status"]}

\* A PATCH that changes what the filters match, and one that stores a null.
ListBodies == {[status |-> Some("pending")], [priority |-> None]}

NextList ==
    \/ \E q \in ListQueries : get_feedback(q)
    \/ \E q \in ListQueries : get_suggestions(q)
    \/ \E h \in Running : get_feedback_find(h)
    \/ \E h \in Running : get_suggestions_find(h)
    \/ \E b \in ListBodies : update_feedback_find(FeedbackIds[2], b)
    \/ \E h \in Running : update_feedback_write(h)
    \/ \E h \in Running : update_feedback_return(h)

\* The listings do not look at created_at: one timeline, empty and full stores.
InitList == Restarted({0, MaxStored}, {[i \in 1..MaxStored |-> TicksPerMilli * (i - MaxStored - 1)]})

SpecList == InitList /\ [][NextList]_vars

---------------------------------------------------------------------------
(* POST /analytics *)

\* UserAnalytics as a request body: page_path and action are required, any
\* string is an action.
UserAnalyticsOk(a) == Present(a, "page_path") /\ Present(a, "action")

\* UserAnalytics(**a).dict(): id and timestamp come from their default
\* factories unless the body carries them.
UserAnalytics(a, id, now) ==
    [id |-> IF Present(a, "id") THEN a.id[1] ELSE id,
     user_id |-> Get(a, "user_id", None),
     page_path |-> a.page_path[1],
     action |-> a.action[1],
     timestamp |-> IF Present(a, "timestamp") THEN a.timestamp[1] ELSE now,
     user_agent |-> Get(a, "user_agent", None),
     session_id |-> Get(a, "session_id", None)]

track_user_analytics(a) ==
    IF ~UserAnalyticsOk(a)
    THEN /\ response' = Reply("track_user_analytics", 422, None)
         /\ UNCHANGED <<db, clock, issued, inflight, acks, updates>>
    ELSE /\ Len(db.analytics) < MaxEvents
         /\ \E now \in (IF Present(a, "timestamp") THEN {clock} ELSE utcnow(clock)) :
              LET analytics == UserAnalytics(a, uuid4(issued), now)
              IN  /\ db' = [db EXCEPT !.analytics = insert_one(@, analytics)]
                  /\ response' = Reply("track_user_analytics", 200, analytics)
                  /\ clock' = now
                  /\ issued' = IF Present(a, "id") THEN issued ELSE issued + 1
         /\ UNCHANGED <<inflight, acks, updates>>

\* The event of the test, an action no list names, an event that brings its
\* own id and timestamp, and events without a required field.
AnalyticsScenario ==
    [page_path |-> Some("/feedback"), action |-> Some("view"), session_id |-> Some("s")]

AnalyticsPayloads ==
    { AnalyticsScenario,
      With(AnalyticsScenario, "action", Some("anything at all")),
      With(AnalyticsScenario, "action", Some("")),
      With(With(AnalyticsScenario, "id", Some("e1")), "timestamp", Some(1)),
      Without(AnalyticsScenario, "action"),
      Without(AnalyticsScenario, "page_path") }

NextAnalytics ==
    \/ \E a \in AnalyticsPayloads : track_user_analytics(a)
    \/ \E p \in CoreFeedbackPayloads : create_feedback(p)
    \/ \E p \in CoreSuggestionPayloads : create_suggestion(p)

SpecAnalytics == Init /\ [][NextAnalytics]_vars

---------------------------------------------------------------------------
(* Two partial updates of one item *)

\* Two PATCH bodies that both give status and each give a field of their own.
FirstBody == [status |-> Some("resolved"), admin_notes |-> Some("a")]
SecondBody == [status |-> Some("closed"), priority |-> Some("urgent")]

\* One stored item, a feedback or a suggestion.
InitRace ==
    /\ \E times \in Timelines :
         db \in {[feedback |-> StoredFeedback(1, times), suggestions |-> <<>>,
                  analytics |-> <<>>],
                 [feedback |-> <<>>, suggestions |-> StoredSuggestions(1, times),
                  analytics |-> <<>>]}
    /\ clock = 0
    /\ issued = 0
    /\ inflight = EmptyBag
    /\ response = [op |-> "none", code |-> 0, body |-> None]
    /\ acks = [id \in Ids |-> 0]
    /\ updates = 0

\* The request with FirstBody arrives before the one with SecondBody; from
\* there on the steps of the two handlers interleave freely.
update_feedback_first == updates = 0 /\ update_feedback_find(FeedbackIds[1], FirstBody)
update_feedback_second == updates = 1 /\ update_feedback_find(FeedbackIds[1], SecondBody)
update_suggestion_first == updates = 0 /\ update_suggestion_find(SuggestionIds[1], FirstBody)
update_suggestion_second == updates = 1 /\ update_suggestion_find(SuggestionIds[1], SecondBody)

NextRace ==
    \/ update_feedback_first
    \/ update_feedback_second
    \/ update_suggestion_first
    \/ update_suggestion_second
    \/ \E h \in Running : update_feedback_write(h)
    \/ \E h \in Running : update_feedback_return(h)
    \/ \E h \in Running : update_suggestion_write(h)
    \/ \E h \in Running : update_suggestion_return(h)
    \/ \E id \in {FeedbackIds[1], SuggestionIds[1]} : get_feedback_by_id(id)

SpecRace == InitRace /\ [][NextRace]_vars

---------------------------------------------------------------------------
(* Every operation, one request after the other *)

\* No handler is suspended: the next request is the only one running.
Quiet == inflight = EmptyBag

\* A PATCH body that also names fields no partial update may set.
AllBody ==
    [status |-> Some("resolved"), admin_notes |-> Some("note"),
     title |-> Some("Z"), votes |-> Some(9), created_at |-> Some(1), id |-> Some("u8")]

AllQuery == [status |-> "pending", limit |-> 2]

\* The item the requests name: the first one created.
AllId == uuid4(0)

NextAll ==
    \/ Quiet /\ \E p \in CoreFeedbackPayloads : create_feedback(p)
    \/ Quiet /\ \E p \in CoreSuggestionPayloads : create_suggestion(p)
    \/ Quiet /\ get_feedback_by_id(AllId)
    \/ Quiet /\ update_feedback_find(AllId, AllBody)
    \/ \E h \in Running : update_feedback_write(h)
    \/ \E h \in Running : update_feedback_return(h)
    \/ Quiet /\ update_suggestion_find(AllId, AllBody)
    \/ \E h \in Running : update_suggestion_write(h)
    \/ \E h \in Running : update_suggestion_return(h)
    \/ Quiet /\ vote_suggestion_find(AllId)
    \/ \E h \in Running : vote_suggestion_inc(h)
    \/ Quiet /\ get_feedback(AllQuery)
    \/ \E h \in Running : get_feedback_find(h)
    \/ Quiet /\ get_suggestions(AllQuery)
    \/ \E h \in Running : get_suggestions_find(h)
    \/ Quiet /\ get_category_stats
    \/ \E h \in Running : stats_count_feedback(h)
    \/ \E h \in Running : stats_count_suggestions(h)
    \/ \E h \in Running : stats_find_feedback(h)
    \/ \E h \in Running : stats_find_suggestions(h)
    \/ Quiet /\ get_admin_dashboard
    \/ \E h \in Running : dashboard_total_feedback(h)
    \/ \E h \in Running : dashboard_total_suggestions(h)
    \/ \E h \in Running : dashboard_pending_feedback(h)
    \/ \E h \in Running : dashboard_pending_suggestions(h)
    \/ \E h \in Running : dashboard_high_feedback(h)
    \/ \E h \in Running : dashboard_high_suggestions(h)
    \/ \E h \in Running : dashboard_recent_feedback(h)
    \/ \E h \in Running : dashboard_recent_suggestions(h)
    \/ Quiet /\ track_user_analytics(AnalyticsScenario)

SpecAll == Init /\ [][NextAll]_vars

---------------------------------------------------------------------------
(* Submissions alone, over every deviation of a submission *)

SubmitFeedback == \E p \in FeedbackPayloads : create_feedback(p)
SubmitSuggestion == \E p \in SuggestionPayloads : create_suggestion(p)

NextCreate == SubmitFeedback \/ SubmitSuggestion

SpecCreate == Init /\ [][NextCreate]_vars

---------------------------------------------------------------------------
(* Claims about submission *)

Collections == {"feedback", "suggestions"}
Stored(c) == {db[c][i] : i \in 1..Len(db[c])}
Last(s) == s[Len(s)]

\* The step appended the returned entity (its timestamps apart) to collection
\* c, and that entity carries the lifecycle defaults and an identifier no stored item has.
CreatedWithDefaults(c, op) ==
    /\ response'.op = op /\ response'.code = 200
    /\ Len(db'[c]) = Len(db[c]) + 1
    /\ SubSeq(db'[c], 1, Len(db[c])) = db[c]
    /\ \A f \in DOMAIN response'.body \ {"created_at", "updated_at"} :
         Last(db'[c])[f] = response'.body[f]
    /\ \A k \in Collections \ {c} : db'[k] = db[k]
    /\ LET e == response'.body
       IN  /\ e.status = Some("pending")
           /\ e.priority = Some("medium")
           /\ e.admin_notes = None
           /\ e.admin_response = None
           /\ e.id # ""
           /\ \A k \in Collections : \A d \in Stored(k) : d.id # e.id
           /\ (c = "suggestions" => e.votes = 0)

\* C1: every valid submission, whatever extra fields it carries, is stored and
\* returned with status pending, priority medium, no admin_notes and no
\* admin_response, a non-empty identifier that no item already stored has,
\* and (suggestions) votes = 0.
C1_CreationDefaults ==
    [][ /\ \A p \in FeedbackPayloads :
             (FeedbackCreateOk(p) /\ create_feedback(p))
                 => CreatedWithDefaults("feedback", "create_feedback")
        /\ \A p \in SuggestionPayloads :
             (SuggestionCreateOk(p) /\ create_suggestion(p))
                 => CreatedWithDefaults("suggestions", "create_suggestion") ]_vars

\* A submission carrying status, priority, admin fields, id and votes was
\* stored next to an earlier item.
C1_Witness ==
    /\ Len(db.feedback) = 1 /\ db.feedback[1].title = "T"
    /\ Len(db.suggestions) = 1 /\ db.suggestions[1].title = "T"
    /\ response.op = "create_suggestion" /\ response.code = 200

\* C2: the entity a submission returns and stores has created_at = updated_at.
C2_TimestampsEqual ==
    /\ \A c \in Collections : \A d \in Stored(c) : d.created_at = d.updated_at
    /\ (response.code = 200 /\ response.op \in {"create_feedback", "create_suggestion"})
           => response.body.created_at = response.body.updated_at

\* The step is a submission of the scenario with its rating replaced by r
\* (None: a null rating; the key may also be missing).
RatedFeedback(r) == With(FeedbackScenario, "rating", r)
RatedSuggestion(r) == With(SuggestionScenario, "rating", r)

Accepted(c, rating) ==
    /\ response'.code = 200
    /\ response'.body.rating = rating
    /\ Len(db'[c]) = Len(db[c]) + 1
    /\ SubSeq(db'[c], 1, Len(db[c])) = db[c]
    /\ Last(db'[c]).id = response'.body.id
    /\ Last(db'[c]).rating = rating
Rejected ==
    /\ response'.code = 422
    /\ db' = db

\* C3: an otherwise valid submission succeeds when rating is absent or an
\* integer in [1,5], and fails validation for every integer outside [1,5];
\* a failed submission leaves the store unchanged.
C3_RatingRange ==
    [][ /\ \A r \in RatingInputs :
             /\ create_feedback(RatedFeedback(Some(r)))
                  => IF r \in 1..5 THEN Accepted("feedback", Some(r)) ELSE Rejected
             /\ create_suggestion(RatedSuggestion(Some(r)))
                  => IF r \in 1..5 THEN Accepted("suggestions", Some(r)) ELSE Rejected
        /\ create_feedback(RatedFeedback(None)) => Accepted("feedback", None)
        /\ create_feedback(Without(FeedbackScenario, "rating")) => Accepted("feedback", None)
        /\ create_suggestion(RatedSuggestion(None)) => Accepted("suggestions", None)
        /\ create_suggestion(Without(SuggestionScenario, "rating"))
             => Accepted("suggestions", None) ]_vars

\* A rating at the edge of the range was stored, and a later submission was
\* rejected.
C3_Witness ==
    /\ Len(db.feedback) = 1 /\ db.feedback[1].rating = Some(5)
    /\ Len(db.suggestions) = 0
    /\ response.op = "create_suggestion" /\ response.code = 422

\* C4: title and description are required non-empty text, so every stored
\* feedback and suggestion has a non-empty title and a non-empty description.
C4_NonEmptyText ==
    \A c \in Collections : \A d \in Stored(c) : d.title # "" /\ d.description # ""

---------------------------------------------------------------------------
(* Claims about partial update, lookup and vote *)

Members(enum) == {Some(v) : v \in Range(enum)}

EnumFieldsValid ==
    /\ \A d \in Stored("feedback") :
         /\ d.category \in Range(FeedbackCategory)
         /\ d.type \in Range(FeedbackType)
         /\ d.status \in Members(FeedbackStatus)
         /\ d.priority \in Members(Priority)
    /\ \A d \in Stored("suggestions") :
         /\ d.category \in Range(FeedbackCategory)
         /\ d.status \in Members(FeedbackStatus)
         /\ d.priority \in Members(Priority)

\* The body gives status or priority a value outside its enumeration: an
\* unknown string or an explicit null.
OutsideEnum(b) ==
    \/ Has(b, "status") /\ b.status \notin Members(FeedbackStatus)
    \/ Has(b, "priority") /\ b.priority \notin Members(Priority)

\* C5: in every reachable state each stored item's category, type, status and
\* priority is a member of its fixed set, and a partial update that gives
\* status or priority any other value (an unknown string, an explicit null) is
\* rejected and leaves the store unchanged.
C5_EnumFieldsAlwaysValid ==
    /\ []EnumFieldsValid
    /\ [][ \A id \in RequestIds : \A b \in UpdateBodies :
             (OutsideEnum(b) /\ (update_feedback_find(id, b) \/ update_suggestion_find(id, b)))
                 => (response'.code = 422 /\ inflight' = inflight /\ db' = db) ]_vars

\* What an update handler's write makes of the document it targets: the
\* fields the PATCH body provided take the body's values, updated_at the time
\* the handler read, every other field keeps its value.
Updated(doc, h) ==
    [f \in DOMAIN doc |->
        IF f \in UpdateFields /\ Has(h.update_data, f) THEN h.update_data[f]
        ELSE IF f = "updated_at"
             THEN h.update_dict.updated_at - (h.update_dict.updated_at % TicksPerMilli)
        ELSE doc[f]]

\* The step changed position i of collection c into doc and nothing else.
OnlyChanged(c, i, doc) ==
    /\ \A k \in Collections : Len(db'[k]) = Len(db[k])
    /\ \A k \in Collections : \A j \in 1..Len(db[k]) :
         db'[k][j] = IF k = c /\ j = i THEN doc ELSE db[k][j]

\* The collection a handler works on.
CollectionOf(h) == IF h.op = "update_feedback" THEN "feedback" ELSE "suggestions"

\* C6: a partial update of an existing item changes exactly the fields among
\* status, priority, admin_notes, admin_response that the request provided,
\* sets updated_at to the time the handler read (in the store, to the
\* millisecond), and leaves every other field
\* of the item and every other item unchanged.
C6_PartialUpdateFrame ==
    [][ /\ \A h \in Running :
             (update_feedback_write(h) \/ update_suggestion_write(h))
                 => LET c == CollectionOf(h)
                        i == Position(db[c], h.id)
                    IN  i > 0 /\ OnlyChanged(c, i, Updated(db[c][i], h))
        /\ \A h \in BagToSet(inflight') \ Running :
             (h.op \in {"update_feedback", "update_suggestion"} /\ h.pc = "update_one")
                 => h.update_dict.updated_at = clock' ]_vars

\* An item got admin_notes from one update and then status from another that
\* carried no admin_notes; the other item is as it was created.
C6_Witness ==
    /\ Len(db.suggestions) = 2
    /\ db.suggestions[1].admin_notes = Some("note")
    /\ db.suggestions[1].status = Some("resolved")
    /\ db.suggestions[1].updated_at > db.suggestions[1].created_at
    /\ db.suggestions[2].status = Some("pending")
    /\ response.op = "update_suggestion" /\ response.code = 200
    /\ response.body = db.suggestions[1]

Missing(c, id) == find_one(db[c], id) = None
Untouched == db' = db /\ inflight' = inflight /\ acks' = acks
NotFoundReply == response'.code = 404 /\ Untouched

\* C7 as claimed: lookup, partial update and vote with an identifier that
\* matches no stored item each return NotFound, never a validation error, and
\* leave the store unchanged.
C7_NotFoundAlways ==
    [][ \A id \in RequestIds :
          /\ Missing("feedback", id) =>
               /\ get_feedback_by_id(id) => NotFoundReply
               /\ \A b \in CoreUpdateBodies : update_feedback_find(id, b) => NotFoundReply
          /\ Missing("suggestions", id) =>
               /\ \A b \in CoreUpdateBodies : update_suggestion_find(id, b) => NotFoundReply
               /\ vote_suggestion_find(id) => NotFoundReply ]_vars

\* The body gives status or priority a string outside its enumeration.
UnknownMember(b) ==
    \/ Present(b, "status") /\ b.status \notin Members(FeedbackStatus)
    \/ Present(b, "priority") /\ b.priority \notin Members(Priority)

\* The reply to a PATCH on an identifier that matches nothing: the validation
\* error when the body fails validation, NotFound otherwise.
RejectedOrNotFound(b) ==
    /\ response'.code = (IF UnknownMember(b) THEN 422 ELSE 404)
    /\ Untouched

\* C7, amended: the same for lookup, vote, and a partial update whose body
\* passes validation; a partial update whose body fails validation returns the
\* validation error, whether or not the identifier matches; the store is
\* unchanged in every one of these cases.
C7_NotFoundAfterValidation ==
    [][ \A id \in RequestIds :
          /\ Missing("feedback", id) =>
               /\ get_feedback_by_id(id) => NotFoundReply
               /\ \A b \in CoreUpdateBodies :
                    update_feedback_find(id, b) => RejectedOrNotFound(b)
          /\ Missing("suggestions", id) =>
               /\ \A b \in CoreUpdateBodies :
                    update_suggestion_find(id, b) => RejectedOrNotFound(b)
               /\ vote_suggestion_find(id) => NotFoundReply ]_vars

\* A vote on an identifier that only a feedback has was answered NotFound
\* while the store held items and another handler was suspended.
C7_Witness ==
    /\ response.op = "vote_suggestion" /\ response.code = 404
    /\ Len(db.feedback) = 1 /\ Len(db.suggestions) = 1
    /\ BagCardinality(inflight) = 1

\* C8: the stored votes of every suggestion equals the number of votes on it
\* that were acknowledged, under every interleaving of vote and update
\* handlers: no increment is lost.
C8_NoLostVote ==
    \A d \in Stored("suggestions") : d.votes = acks[d.id]

\* A vote was acknowledged while another vote on the same suggestion, whose
\* existence check read the suggestion before that increment, is still on its
\* way.
C8_Witness ==
    \E d \in Stored("suggestions") : \E h \in Running :
        /\ d.votes = 1
        /\ h.op = "vote_suggestion" /\ h.id = d.id
        /\ h.found[1].votes = 0

\* The step kept every suggestion where it was, and changed the votes of none
\* but position i.
VotesChangedAt(i) ==
    /\ i \in 1..Len(db.suggestions)
    /\ db'.suggestions[i].votes # db.suggestions[i].votes

\* C9: a vote changes only the votes field of its suggestion, by +1; votes
\* starts at 0, never decreases, and no step other than a vote's increment
\* changes it.
C9_VoteFrame ==
    [][ /\ \A h \in Running :
             vote_suggestion_inc(h)
                 => LET i == Position(db.suggestions, h.id)
                    IN  /\ i > 0
                        /\ OnlyChanged("suggestions", i,
                               [db.suggestions[i] EXCEPT !.votes = @ + 1])
        /\ Len(db'.suggestions) >= Len(db.suggestions)
        /\ \A i \in 1..Len(db.suggestions) :
             /\ db'.suggestions[i].votes >= db.suggestions[i].votes
             /\ VotesChangedAt(i) => \E h \in Running : vote_suggestion_inc(h)
        /\ \A i \in (Len(db.suggestions) + 1)..Len(db'.suggestions) :
             db'.suggestions[i].votes = 0 ]_vars

\* A suggestion was updated and voted on, next to one that was not.
C9_Witness ==
    /\ Len(db.suggestions) = 2
    /\ db.suggestions[1].votes = 2
    /\ db.suggestions[1].status = Some("resolved")
    /\ db.suggestions[2].votes = 0
    /\ response.op = "vote_suggestion" /\ response.code = 200

---------------------------------------------------------------------------
(* Claims about the category statistics *)

CategoriesInOrder ==
    <<"user_interface", "social_features", "content", "functionality",
      "performance", "security", "accessibility", "other">>

Rated(category) ==
    \E c \in Collections : \E d \in Stored(c) : d.category = category /\ d.rating # None

\* C10: get_category_stats returns exactly 8 entries, one per category in
\* declaration order, and the average_rating of a category no stored feedback
\* or suggestion has rated is absent, not zero.
C10_EightEntriesInOrder ==
    response.op = "get_category_stats" =>
        /\ response.code = 200
        /\ Len(response.body) = 8
        /\ \A i \in 1..8 :
             /\ response.body[i].category = CategoriesInOrder[i]
             /\ ~Rated(CategoriesInOrder[i]) => response.body[i].average_rating = None

\* The statistics of a store with a rated feedback in one category and an
\* unrated suggestion in another.
C10_Witness ==
    /\ response.op = "get_category_stats"
    /\ response.body[5].feedback_count = 1
    /\ response.body[5].average_rating = Some([num |-> 2, den |-> 1])
    /\ response.body[8].suggestion_count = 1
    /\ response.body[8].average_rating = None
    /\ ~Rated("other")

InCategory(c, category) == {i \in 1..Len(db[c]) : db[c][i].category = category}
RatedIn(c, category) == {i \in InCategory(c, category) : db[c][i].rating # None}

RECURSIVE RatingTotal(_, _)
RatingTotal(c, positions) ==
    IF positions = {} THEN 0
    ELSE LET i == CHOOSE x \in positions : TRUE
         IN  db[c][i].rating[1] + RatingTotal(c, positions \ {i})

\* The entry is the one the store, as it is, gives for the category.
EntryMatchesStore(entry, category) ==
    LET n == Cardinality(RatedIn("feedback", category))
             + Cardinality(RatedIn("suggestions", category))
        total == RatingTotal("feedback", RatedIn("feedback", category))
                 + RatingTotal("suggestions", RatedIn("suggestions", category))
    IN  /\ entry.feedback_count = Cardinality(InCategory("feedback", category))
        /\ entry.suggestion_count = Cardinality(InCategory("suggestions", category))
        /\ n > 0 => /\ entry.average_rating # None
                    /\ entry.average_rating[1].num * n = total * entry.average_rating[1].den

StatsReturns == StatsRunning # {} /\ StatsRunning' = {}

\* C11: with no write running while the statistics are computed, each
\* returned entry holds the number of stored feedback and of stored suggestions
\* of its category and, when a rating is present, the sum of the present
\* ratings of both collections divided by their number; an item without a
\* rating is counted but adds to neither the sum nor the divisor.
C11_StatsMatchStore ==
    [][StatsReturns =>
          /\ response'.op = "get_category_stats"
          /\ \A i \in 1..Len(CategoriesInOrder) :
               EntryMatchesStore(response'.body[i], CategoriesInOrder[i])]_vars

\* Statistics of a store holding a feedback without a rating and a suggestion
\* rated 4 in the same category: counts 1 and 1, average 4.
C11_Witness ==
    /\ response.op = "get_category_stats"
    /\ StatsRunning = {}
    /\ Cardinality(InCategory("feedback", "performance")) = 1
    /\ RatedIn("feedback", "performance") = {}
    /\ RatedIn("suggestions", "performance") # {}
    /\ response.body[5].feedback_count = 1
    /\ response.body[5].suggestion_count = 1
    /\ response.body[5].average_rating = Some([num |-> 4, den |-> 1])

---------------------------------------------------------------------------
(* Claims about the dashboard *)

DashboardReturns == DashboardRunning # {} /\ DashboardRunning' = {}

Having(c, field, value) == {i \in 1..Len(db[c]) : db[c][i][field] = value}

\* C12: with no write running while the dashboard is computed, the overview
\* holds the sizes of the two collections, the numbers of pending items, and
\* the number of feedback plus the number of suggestions with priority high;
\* an item with priority urgent is not counted in high_priority_items.
C12_OverviewMatchesStore ==
    [][DashboardReturns =>
          /\ response'.op = "get_admin_dashboard" /\ response'.code = 200
          /\ response'.body.overview =
                [total_feedback |-> Len(db.feedback),
                 total_suggestions |-> Len(db.suggestions),
                 pending_feedback |-> Cardinality(Having("feedback", "status", Some("pending"))),
                 pending_suggestions |->
                     Cardinality(Having("suggestions", "status", Some("pending"))),
                 high_priority_items |->
                     Cardinality(Having("feedback", "priority", Some("high")))
                     + Cardinality(Having("suggestions", "priority", Some("high")))]]_vars

\* recent lists min(RecentLimit, size) distinct stored items of coll, latest
\* created first, and leaves out no item created later than a listed one.
MostRecent(recent, coll) ==
    /\ Len(recent) = Min(5, Len(coll))
    /\ \A i \in 1..Len(recent) : recent[i] \in Range(coll)
    /\ \A i, j \in 1..Len(recent) :
         /\ i < j => recent[i].created_at >= recent[j].created_at
         /\ i # j => recent[i].id # recent[j].id
    /\ \A d \in Range(coll) \ Range(recent) :
         \A i \in 1..Len(recent) : d.created_at <= recent[i].created_at

\* The identifiers of every listing the store can return for coll.
Listings(coll) ==
    {[i \in 1..Len(r) |-> r[i].id] : r \in sort_created_at_desc_limit(coll, RecentLimit)}

\* C13: with no write running while the dashboard is computed, recent_feedback
\* and recent_suggestions hold min(5, collection size) items sorted by
\* created_at descending with no later item left out; and a partial update or
\* a vote changes neither which items are listed nor their order.
C13_RecentItems ==
    [][/\ DashboardReturns =>
            /\ response'.code = 200
            /\ MostRecent(response'.body.recent_feedback, db.feedback)
            /\ MostRecent(response'.body.recent_suggestions, db.suggestions)
       /\ db' # db =>
            /\ Listings(db'.feedback) = Listings(db.feedback)
            /\ Listings(db'.suggestions) = Listings(db.suggestions)]_vars

---------------------------------------------------------------------------
(* Claims about the listings *)

\* The positions of collection c whose item satisfies every filter the request
\* provides.
Satisfying(c, q) ==
    {i \in 1..Len(db[c]) :
        /\ Has(q, "status") => db[c][i].status = Some(q.status)
        /\ Has(q, "category") => db[c][i].category = q.category
        /\ Has(q, "priority") => db[c][i].priority = Some(q.priority)
        /\ (c = "feedback" /\ Has(q, "feedback_type")) => db[c][i].type = q.feedback_type}

\* list is the items at `positions` in storage order, without the first skip
\* of them and without those after the next limit.
IsPage(list, c, positions, skip, limit) ==
    LET rank(i) == Cardinality({j \in positions : j <= i})
        kept == {i \in positions : rank(i) > skip /\ rank(i) <= skip + limit}
    IN  /\ Len(list) = Cardinality(kept)
        /\ \A i \in kept : list[rank(i) - skip] = db[c][i]

Listed(c, q) ==
    LET skip == IF Has(q, "skip") THEN q.skip ELSE 0
        limit == IF Has(q, "limit") THEN q.limit ELSE 50
        positions == Satisfying(c, q)
    IN  /\ response'.code = 200
        /\ IsPage(response'.body, c, positions, skip, limit)
        /\ (positions = {} \/ skip >= Cardinality(positions)) => response'.body = <<>>

\* C14: for every combination of the optional filters, every skip >= 0 and
\* limit > 0, a listing returns exactly the stored items that satisfy every
\* provided filter, in storage order, the first skip of them dropped and at
\* most limit returned; a filter that matches nothing, or a skip at or past the
\* number of matches, gives an empty list and no error.
C14_ListingPage ==
    [][\A h \in Running :
          /\ get_feedback_find(h) => Listed("feedback", h.q)
          /\ get_suggestions_find(h) => Listed("suggestions", h.q)]_vars

---------------------------------------------------------------------------
(* Claims about the round trip *)

\* The last response is the entity a submission or a partial update returned
\* for id, and no partial update of that item is running: nothing has changed
\* the item since.
JustReturned(id) ==
    /\ response.code = 200
    /\ response.op \in {"create_feedback", "update_feedback"}
    /\ response.body.id = id
    /\ \A h \in Running : ~(h.op = "update_feedback" /\ h.id = id)

\* C15: get_feedback_by_id on the identifier create_feedback returned, with no
\* mutation of the item in between, returns an entity equal field by field,
\* timestamps included, to the create response; and after a successful partial
\* update it returns an entity equal to the update's response.
C15_RoundTrip ==
    [][\A id \in RequestIds :
          (JustReturned(id) /\ get_feedback_by_id(id))
              => response'.code = 200 /\ response'.body = response.body]_vars

---------------------------------------------------------------------------
(* Claims about the analytics log *)

\* C16: an analytics submission that carries page_path and action is accepted
\* whatever its action, appends exactly one event record, with id and timestamp
\* filled in when the client sent none, and returns the record as stored; no
\* step modifies or removes an event record, and recording an event leaves the
\* feedback and the suggestions unchanged.
C16_AnalyticsAppendOnly ==
    [][/\ \A a \in AnalyticsPayloads :
            (Has(a, "page_path") /\ Has(a, "action") /\ track_user_analytics(a))
                => /\ response'.code = 200
                   /\ db'.analytics = Append(db.analytics, response'.body)
                   /\ response'.body.action = a.action[1]
                   /\ response'.body.id # ""
                   /\ Has(a, "id") => response'.body.id = a.id[1]
                   /\ Has(a, "timestamp") => response'.body.timestamp = a.timestamp[1]
                   /\ ~Has(a, "timestamp") => response'.body.timestamp = clock'
                   /\ db'.feedback = db.feedback /\ db'.suggestions = db.suggestions
       /\ Len(db'.analytics) >= Len(db.analytics)
       /\ SubSeq(db'.analytics, 1, Len(db.analytics)) = db.analytics]_vars

---------------------------------------------------------------------------
(* Claims about concurrent partial updates *)

\* Both updates were accepted and both have written.
BothWritten == updates = 2 /\ \A h \in Running : h.pc # "update_one"

\* C17: when two partial updates of one item run concurrently, under every
\* interleaving of their existence checks, writes and read-backs, after both
\* have written each field only one of them provided holds that update's
\* value, a field both provided holds the value of one of them, the one whose
\* write was applied last, and every field neither provided is untouched.
C17_NoLostUpdate ==
    /\ [](BothWritten =>
            \A c \in Collections : \A d \in Stored(c) :
                /\ d.admin_notes = Some("a")
                /\ d.priority = Some("urgent")
                /\ d.status \in {Some("resolved"), Some("closed")}
                /\ d.admin_response = None
                /\ d.title = "X" /\ d.rating # None)
    /\ [][\A h \in Running :
            (update_feedback_write(h) \/ update_suggestion_write(h))
                => \A d \in Stored(CollectionOf(h))' : d.status = h.update_data.status]_vars

\* Both requests are answered and the first request's write was applied last:
\* its status stands, next to the second request's priority.
C17_Witness ==
    /\ BothWritten /\ inflight = EmptyBag
    /\ \E d \in Stored("suggestions") :
         /\ d.status = Some("resolved")
         /\ d.priority = Some("urgent")
         /\ d.admin_notes = Some("a")
    /\ response.op = "update_suggestion" /\ response.code = 200
    /\ response.body.status = Some("resolved")

---------------------------------------------------------------------------
(* Claims about every operation *)

\* The fields of an item of collection c that are set when it is created.
CreationFields(c) ==
    {"id", "created_at", "title", "description", "category", "rating",
     "is_anonymous", "user_email", "user_name"}
        \cup (IF c = "feedback" THEN {"type"} ELSE {"expected_benefit"})

\* The step changed field k of an item of collection c.
Changed(c, k) ==
    \E d \in Stored(c) : \E e \in Stored(c)' : e.id = d.id /\ e[k] # d[k]

\* No two items of one collection share an identifier.
UniqueIds ==
    \A c \in Collections : \A i, j \in 1..Len(db[c]) :
        db[c][i].id = db[c][j].id => i = j

\* C18: through any sequence of requests, every item once stored is still
\* stored with the id, created_at, title, description, category, type, rating,
\* is_anonymous, user_email, user_name and expected_benefit it had, no two
\* items of one collection share an id, status, priority, admin_notes,
\* admin_response and updated_at change only in the write of a partial update,
\* votes only in the increment of a vote, and the lookup, the listings, the
\* category statistics and the dashboard change nothing stored.
C18_CreatedItemsKeep ==
    /\ []UniqueIds
    /\ [][/\ \A c \in Collections : \A d \in Stored(c) :
               \E e \in Stored(c)' :
                   /\ e.id = d.id /\ DOMAIN e = DOMAIN d
                   /\ \A k \in CreationFields(c) : e[k] = d[k]
          /\ \A k \in UpdateFields \cup {"updated_at"} :
               /\ Changed("feedback", k) => \E h \in Running : update_feedback_write(h)
               /\ Changed("suggestions", k) => \E h \in Running : update_suggestion_write(h)
          /\ Changed("suggestions", "votes") => \E h \in Running : vote_suggestion_inc(h)
          /\ db'.feedback # db.feedback
               => \/ \E p \in CoreFeedbackPayloads : create_feedback(p)
                  \/ \E h \in Running : update_feedback_write(h)
          /\ db'.suggestions # db.suggestions
               => \/ \E p \in CoreSuggestionPayloads : create_suggestion(p)
                  \/ \E h \in Running : update_suggestion_write(h)
                  \/ \E h \in Running : vote_suggestion_inc(h)
          /\ (/\ response' # response
              /\ response'.op \in {"get_feedback_by_id", "get_feedback", "get_suggestions",
                                   "get_category_stats", "get_admin_dashboard"})
               => db' = db]_vars

\* A suggestion was updated and voted for and keeps the title it was created
\* with, next to a stored feedback, and the dashboard has just been served.
C18_Witness ==
    /\ \E d \in Stored("suggestions") :
         /\ d.votes > 0 /\ d.status = Some("resolved")
         /\ d.admin_notes = Some("note") /\ d.title = "T"
    /\ Len(db.feedback) > 0
    /\ response.op = "get_admin_dashboard" /\ response.code = 200

====
